---------------------------- MODULE Spec2Model ----------------------------
(***************************************************************************)
(* State-machine model of fetch.py (WeatherDataFetcher): the incremental   *)
(* fetch-and-reconcile engine.  One process invocation (main) builds a     *)
(* fetcher and calls run(); run() loads the counties, dispatches one unit  *)
(* of work (fetch_and_store_data) per county on a thread pool, waits for   *)
(* the pool and closes the MongoDB client.                                 *)
(*                                                                         *)
(* Dates are day numbers (days since 1970-01-01, proleptic Gregorian);     *)
(* a 'YYYYMMDD' string is modelled by the integer its digits spell.        *)
(* Python's None is modelled by the integer None (no date and no value is  *)
(* negative).                                                              *)
(***************************************************************************)
EXTENDS Integers, Sequences, FiniteSets, Bags, TLC

(***************************************************************************)
(* Bounds of the model.                                                    *)
(***************************************************************************)
\* number of county documents in county_data
NumCounties == 3
\* number of process invocations (runs of main) in one behaviour
MaxRuns == 2
\* number of deviations from the nominal run in one behaviour: injected
\* faults, non-nominal upstream responses, options of the configuration that
\* differ from DefaultConfig, an incomplete county document
MaxDeviations == 1

(***************************************************************************)
(* Program constants.                                                      *)
(***************************************************************************)
None == -1
\* stop_after_attempt(5)
StopAfterAttempt == 5
\* config.get('re_fetch_days', 7)
DefaultReFetchDays == 7
\* wait_exponential(multiplier=1, min=4, max=10)
WaitMultiplier == 1
WaitMin == 4
WaitMax == 10

(***************************************************************************)
(* datetime.date: conversion between day numbers and (year, month, day).   *)
(***************************************************************************)
days_from_civil(y, m, d) ==
    LET yy  == IF m <= 2 THEN y - 1 ELSE y
        era == yy \div 400
        yoe == yy - era * 400
        mp  == IF m > 2 THEN m - 3 ELSE m + 9
        doy == (153 * mp + 2) \div 5 + d - 1
        doe == yoe * 365 + yoe \div 4 - yoe \div 100 + doy
    IN  era * 146097 + doe - 719468

civil_from_days(z) ==
    LET zz  == z + 719468
        era == zz \div 146097
        doe == zz - era * 146097
        yoe == (doe - doe \div 1460 + doe \div 36524 - doe \div 146096) \div 365
        doy == doe - (365 * yoe + yoe \div 4 - yoe \div 100)
        mp  == (5 * doy + 2) \div 153
        d   == doy - (153 * mp + 2) \div 5 + 1
        m   == IF mp < 10 THEN mp + 3 ELSE mp - 9
        y   == yoe + era * 400 + (IF m <= 2 THEN 1 ELSE 0)
    IN  [year |-> y, month |-> m, day |-> d]

IsLeap(y) == (y % 4 = 0 /\ y % 100 # 0) \/ y % 400 = 0

DaysInMonth(y, m) ==
    IF m = 2 THEN (IF IsLeap(y) THEN 29 ELSE 28)
    ELSE IF m \in {4, 6, 9, 11} THEN 30 ELSE 31

\* date.strftime('%Y%m%d'): the digits of the date
strftime(z) ==
    LET c == civil_from_days(z)
    IN  c.year * 10000 + c.month * 100 + c.day

\* datetime.strptime(s, '%Y%m%d') raises ValueError on a string that is no date
ValidDateStr(s) ==
    LET y == s \div 10000
        m == (s \div 100) % 100
        d == s % 100
    IN  /\ y >= 1 /\ y <= 9999
        /\ m >= 1 /\ m <= 12
        /\ d >= 1 /\ d <= DaysInMonth(y, m)

\* datetime.strptime(s, '%Y%m%d') on a valid string: the date (at midnight)
strptime(s) == days_from_civil(s \div 10000, (s \div 100) % 100, s % 100)

\* timedelta(days=5*365)
FiveYearsDelta == 5 * 365


(***************************************************************************)
(* The county documents (county_data) and the configuration.               *)
(***************************************************************************)
Counties == 1..NumCounties

FipsOf(i) == 1000 + i

\* a county document with every field present
CompleteCounty(i) ==
    [county_name |-> 100 + i, state_name |-> 200 + i, fips_code |-> FipsOf(i),
     latitude |-> 30 + i, longitude |-> 80 + i]

\* county.get(field) is None for a field the document lacks
AllComplete == [i \in Counties |-> CompleteCounty(i)]

LastIncomplete ==
    [i \in Counties |->
        IF i = NumCounties THEN [CompleteCounty(i) EXCEPT !.latitude = None]
        ELSE CompleteCounty(i)]

CountyCollections == {AllComplete, LastIncomplete}

ParameterLists == {<<"T2M", "PRECTOT">>, <<"T2M">>}

\* the nominal config.yaml: two workers, so that of three counties one queues
DefaultConfig ==
    [re_fetch_days |-> DefaultReFetchDays, parameters |-> <<"T2M", "PRECTOT">>,
     test_mode |-> FALSE, test_counties |-> {}, max_workers |-> 2]

\* the configurations main() can hand to the fetcher: the default one and the
\* ones that differ from it in one option
Configs ==
    {DefaultConfig}
    \cup {[DefaultConfig EXCEPT !.re_fetch_days = r] : r \in {0, 0 - 1}}
    \cup {[DefaultConfig EXCEPT !.parameters = p] : p \in ParameterLists}
    \cup {[DefaultConfig EXCEPT !.test_mode = TRUE, !.test_counties = t] :
            t \in {{}, {FipsOf(1)}}}
    \cup {[DefaultConfig EXCEPT !.max_workers = 1]}

ConfigCost(cfg) == IF cfg = DefaultConfig THEN 0 ELSE 1

\* self.max_workers = config.get('max_workers', 5)
max_workers_plus_one(cfg) == cfg.max_workers + 1
max_workers(cfg) == cfg.max_workers

\* str.lower() on the parameter codes
Lower_unchanged(code) == code
Lower(code) ==
    CASE code = "T2M" -> "t2m"
      [] code = "PRECTOT" -> "prectot"
      [] OTHER -> code

(***************************************************************************)
(* The weather_data collection: a bag of documents (the index on           *)
(* (fips_code, date) is not unique, so the collection can hold two         *)
(* documents with one key).                                                *)
(***************************************************************************)
Matching(coll, fips, date) ==
    {d \in BagToSet(coll) : d.fips_code = fips /\ d.date = date}

DocsOf(coll, fips) == {d \in BagToSet(coll) : d.fips_code = fips}

\* number of documents of the collection with the key (fips, date)
CountKey(coll, fips, date) ==
    LET m == Matching(coll, fips, date)
    IN  IF m = {} THEN 0
        ELSE BagCardinality([d \in m |-> CopiesIn(d, coll)])

\* find_one({'fips_code': ...}, sort=[('date', -1)]): a document with the
\* greatest date, None when no document matches
get_latest_date_for_county_earliest(coll, county) ==
    LET docs == DocsOf(coll, county.fips_code)
    IN  IF docs = {} THEN None
        ELSE (CHOOSE d \in docs : \A o \in docs : d.date <= o.date).date
get_latest_date_for_county(coll, county) ==
    LET docs == DocsOf(coll, county.fips_code)
    IN  IF docs = {} THEN None
        ELSE (CHOOSE d \in docs : \A o \in docs : o.date <= d.date).date

\* update_one(filter, {'$set': record}, upsert=True): the fields of record are
\* set on one matching document, the document's other fields are kept; with
\* no matching document the record is inserted
update_one_insert(coll, fips, date, record) == coll (+) SetToBag({record})
update_one_by_date(coll, fips, date, record) ==
    LET m == {d \in BagToSet(coll) : d.date = date}
    IN  IF m = {} THEN coll (+) SetToBag({record})
        ELSE LET d == CHOOSE x \in m : TRUE
             IN  (coll (-) SetToBag({d})) (+) SetToBag({record @@ d})
update_one(coll, fips, date, record) ==
    LET m == Matching(coll, fips, date)
    IN  IF m = {} THEN coll (+) SetToBag({record})
        ELSE LET d == CHOOSE x \in m : TRUE
             IN  (coll (-) SetToBag({d})) (+) SetToBag({record @@ d})

(***************************************************************************)
(* The upstream response: data['properties']['parameter'] is an ordered    *)
(* mapping parameter code -> (date string -> value).                       *)
(***************************************************************************)
Max(S) == CHOOSE x \in S : \A y \in S : y <= x
Min(S) == CHOOSE x \in S : \A y \in S : x <= y

RECURSIVE SortedSeq(_)
SortedSeq(S) == IF S = {} THEN <<>> ELSE <<Min(S)>> \o SortedSeq(S \ {Min(S)})

\* a key that is no date (month 13)
BadDateStr == 2026 * 10000 + 1301

Shapes == {"full", "gap", "short_first", "absent", "no_data", "bad_date"}
DateKinds == {"whole", "lagging", "stale"}
Revisions == {1, 2}

\* the dates of the window [s, e] the response carries (the first and the last
\* day stand for the window)
ResponseDates(kind, s, e) ==
    CASE kind = "whole" -> {s, e}
      [] kind = "lagging" -> {s, IF e - 9 > s THEN e - 9 ELSE s}
      [] OTHER -> {s}

ValuesOf(D, k, v) == [x \in {strftime(d) : d \in D} |-> 10 * k + v]

ResponseOf(shape, params, D, v) ==
    LET n == Len(params)
        short == D \ {Max(D)}
        full == [k \in 1..n |-> [code |-> params[k], values |-> ValuesOf(D, k, v)]]
    IN  CASE shape = "full" -> [has_parameter |-> TRUE, parameter |-> full]
          [] shape = "gap" ->
               [has_parameter |-> TRUE,
                parameter |-> [full EXCEPT ![n].values = ValuesOf(short, n, v)]]
          [] shape = "short_first" ->
               [has_parameter |-> TRUE,
                parameter |-> [full EXCEPT ![1].values = ValuesOf(short, 1, v)]]
          [] shape = "absent" ->
               [has_parameter |-> TRUE, parameter |-> SubSeq(full, 1, n - 1)]
          [] shape = "bad_date" ->
               [has_parameter |-> TRUE,
                parameter |-> [k \in 1..n |->
                    [code |-> params[k],
                     values |-> (BadDateStr :> (10 * k + v)) @@ ValuesOf(D, k, v)]]]
          [] OTHER -> [has_parameter |-> FALSE, parameter |-> <<>>]

ResponseCost(shape, kind, v) ==
    (IF shape = "full" THEN 0 ELSE 1) + (IF kind = "whole" THEN 0 ELSE 1)
    + (IF v = 1 THEN 0 ELSE 1)

NoResponse == [has_parameter |-> FALSE, parameter |-> <<>>]

\* line 121: 'properties' in data and 'parameter' in data['properties']
HasParameterPath_always(response) == TRUE
HasParameterPath(response) == response.has_parameter

\* parameters_data.get(param): the table of the parameter, empty when the
\* response lacks the code (None and {} are both falsy)
ParamData(parameters_data, param) ==
    IF \E k \in 1..Len(parameters_data) : parameters_data[k].code = param
    THEN parameters_data[CHOOSE k \in 1..Len(parameters_data) :
                            parameters_data[k].code = param].values
    ELSE <<>>

\* record[param.lower()]: the value, None when the parameter has none
ParamValue(parameters_data, param, date_str) ==
    LET param_data == ParamData(parameters_data, param)
    IN  IF DOMAIN param_data # {} /\ date_str \in DOMAIN param_data
        THEN param_data[date_str] ELSE None

\* the loop over self.parameters: a later parameter overwrites the field of
\* an earlier one with the same lower-cased code
RECURSIVE AddParameters(_, _, _, _)
AddParameters(record, params, parameters_data, date_str) ==
    IF params = <<>> THEN record
    ELSE AddParameters(
            (Lower(Head(params)) :> ParamValue(parameters_data, Head(params), date_str))
                @@ record,
            Tail(params), parameters_data, date_str)

\* the record built for one date of the response
RecordOf(county, params, parameters_data, date_str) ==
    AddParameters(
        [county_name |-> county.county_name, state_name |-> county.state_name,
         fips_code |-> county.fips_code, latitude |-> county.latitude,
         longitude |-> county.longitude, date |-> strptime(date_str)],
        params, parameters_data, date_str)

\* dates = parameters_data[next(iter(parameters_data))].keys()
DatesOf(parameters_data) == SortedSeq(DOMAIN parameters_data[1].values)

\* all([county_name, state_name, fips_code, latitude, longitude])
AllFieldsPresent_but_latitude(county) ==
    /\ county.county_name # None /\ county.state_name # None
    /\ county.fips_code # None /\ county.longitude # None
AllFieldsPresent(county) ==
    /\ county.county_name # None /\ county.state_name # None
    /\ county.fips_code # None /\ county.latitude # None
    /\ county.longitude # None

\* start_date_dt of the unit of work, from the latest stored date
StartDate_unclamped(latest_date_in_db, re_fetch_days, today_) ==
    IF latest_date_in_db # None
    THEN latest_date_in_db - re_fetch_days
    ELSE today_ - FiveYearsDelta
StartDate(latest_date_in_db, re_fetch_days, today_) ==
    IF latest_date_in_db # None
    THEN LET start_date_dt == latest_date_in_db - re_fetch_days
             five_years_ago == today_ - FiveYearsDelta
         IN  IF start_date_dt > five_years_ago THEN start_date_dt ELSE five_years_ago
    ELSE today_ - FiveYearsDelta

\* end_date_dt = today - timedelta(days=1)
EndDate(today_) == today_ - 1

\* line 102: if start_date_dt > end_date_dt
NothingToFetch_never(start_date_dt, end_date_dt) == FALSE
NothingToFetch(start_date_dt, end_date_dt) == start_date_dt > end_date_dt

\* retry_if_exception_type(requests.exceptions.RequestException)
RequestExceptions == {"HTTPError4xx", "HTTPError5xx", "ConnectionError", "Timeout"}
retry_if_exception_type(exc) == exc \in RequestExceptions

\* wait_exponential(multiplier=1, min=4, max=10): the sleep after attempt
\* attempt_number is multiplier * 2^(attempt_number - 1), raised to min and
\* cut to max
wait_exponential(attempt_number) ==
    LET result == WaitMultiplier * 2^(attempt_number - 1)
    IN  Max({WaitMin, Min({result, WaitMax})})

\* stop_after_attempt(5)
stop_after_six(attempt_number) == attempt_number >= StopAfterAttempt + 1
stop_after_attempt(attempt_number) == attempt_number >= StopAfterAttempt

(***************************************************************************)
(* State.                                                                  *)
(***************************************************************************)
VARIABLES
    today,              \* datetime.today().date() during the run
    county_collection,  \* the county_data collection
    store,              \* the weather_data collection
    store0,             \* weather_data when the run started
    config,             \* the configuration of the run
    budget,             \* deviations the behaviour may still take
    runs,               \* process invocations so far
    rpc,                \* position of run()
    raised,             \* an exception is propagating out of run()'s try block
    to_submit,          \* counties the dispatch loop has not submitted yet
    queue,              \* the executor's work queue (submitted, not started)
    permits,            \* value of self.semaphore
    closed,             \* calls of self.client.close() in this run
    pc,                 \* position of each county's unit of work
    attempt,            \* attempt number of the fetch_api_data call in progress
    wait,               \* time the retry of fetch_api_data sleeps, 0 when not waiting
    err,                \* the except clause that ended the unit of work, "" when none
    latest,             \* latest_date_in_db read by the unit of work
    window,             \* <<start_date_dt, end_date_dt>> of the request
    data,               \* the response returned by fetch_api_data
    todo,               \* date strings the reconcile loop has not handled yet
    outcome             \* how the unit of work ended

vars == <<today, county_collection, store, store0, config, budget, runs, rpc,
          raised, to_submit, queue, permits, closed, pc, attempt, wait, err,
          latest, window, data, todo, outcome>>

run_vars == <<rpc, raised, to_submit, closed>>
env_vars == <<today, county_collection, store0, config, runs>>

Today0 == days_from_civil(2026, 11, 1)

NoWindow == <<None, None>>

\* the state of the units of work before run() dispatches
FreshPc == [c \in Counties |-> "idle"]
FreshAttempt == [c \in Counties |-> 0]
FreshWait == [c \in Counties |-> 0]
FreshErr == [c \in Counties |-> ""]
FreshLatest == [c \in Counties |-> None]
FreshWindow == [c \in Counties |-> NoWindow]
FreshData == [c \in Counties |-> NoResponse]
FreshTodo == [c \in Counties |-> <<>>]
FreshOutcome == [c \in Counties |-> ""]

\* main(): the process starts, WeatherDataFetcher(config) is built
Init ==
    /\ today = Today0
    /\ \E cc \in CountyCollections, cfg \in Configs :
          LET cost == ConfigCost(cfg) + (IF cc = AllComplete THEN 0 ELSE 1)
          IN  /\ cost <= MaxDeviations
              /\ county_collection = cc
              /\ config = cfg
              /\ budget = MaxDeviations - cost
              /\ permits = max_workers(cfg)
    /\ store = EmptyBag
    /\ store0 = EmptyBag
    /\ runs = 1
    /\ rpc = "load"
    /\ raised = FALSE
    /\ to_submit = <<>>
    /\ queue = <<>>
    /\ closed = 0
    /\ pc = FreshPc
    /\ attempt = FreshAttempt
    /\ wait = FreshWait
    /\ err = FreshErr
    /\ latest = FreshLatest
    /\ window = FreshWindow
    /\ data = FreshData
    /\ todo = FreshTodo
    /\ outcome = FreshOutcome

\* units of work a pool thread is executing
Running == {c \in Counties : pc[c] \notin {"idle", "queued", "done"}}

\* units of work whose upstream request (attempts and waits) is in flight
InFlight == {c \in Counties : pc[c] \in {"request", "backoff", "hung"}}

(***************************************************************************)
(* run()                                                                   *)
(***************************************************************************)
\* the counties run() processes: all, or those of test_counties
CountiesToProcess(coll, cfg) ==
    SortedSeq({c \in Counties :
                 cfg.test_mode => coll[c].fips_code \in cfg.test_counties})

\* lines 165-175: the counties are loaded; with none, run() returns
LoadCounties ==
    /\ rpc = "load"
    /\ LET counties == CountiesToProcess(county_collection, config)
       IN  IF counties = <<>>
           THEN /\ rpc' = "finally"
                /\ UNCHANGED to_submit
           ELSE /\ rpc' = "dispatch"
                /\ to_submit' = counties
    /\ UNCHANGED <<wait, env_vars, store, budget, raised, queue, permits, closed, pc,
                   attempt, err, latest, window, data, todo, outcome>>

\* lines 166-170: the find raises, the exception leaves the try block
LoadFails ==
    /\ rpc = "load"
    /\ budget > 0
    /\ budget' = budget - 1
    /\ rpc' = "finally"
    /\ raised' = TRUE
    /\ UNCHANGED <<wait, env_vars, store, to_submit, queue, permits, closed, pc,
                   attempt, err, latest, window, data, todo, outcome>>

\* line 178: every county is submitted to the executor, in order; run() then
\* waits in as_completed
Dispatch ==
    /\ rpc = "dispatch"
    /\ queue' = to_submit
    /\ pc' = [c \in Counties |->
                IF \E k \in 1..Len(to_submit) : to_submit[k] = c
                THEN "queued" ELSE pc[c]]
    /\ to_submit' = <<>>
    /\ rpc' = "wait"
    /\ UNCHANGED <<wait, env_vars, store, budget, raised, permits, closed,
                   attempt, err, latest, window, data, todo, outcome>>

\* line 178: executor.submit raises after n counties were submitted (no
\* thread can be started); the exception leaves the with block, whose exit
\* waits for the submitted units
DispatchFails ==
    /\ rpc = "dispatch"
    /\ budget > 0
    /\ budget' = budget - 1
    /\ \E n \in 0..(Len(to_submit) - 1) :
          /\ queue' = SubSeq(to_submit, 1, n)
          /\ pc' = [c \in Counties |->
                      IF \E k \in 1..n : to_submit[k] = c THEN "queued" ELSE pc[c]]
    /\ to_submit' = <<>>
    /\ raised' = TRUE
    /\ rpc' = "wait"
    /\ UNCHANGED <<wait, env_vars, store, permits, closed,
                   attempt, err, latest, window, data, todo, outcome>>

\* ThreadPoolExecutor.__exit__: shutdown(wait=True) returns when every
\* submitted unit of work has finished
AllUnitsFinished == queue = <<>> /\ Running = {}
ShutdownNoWait == TRUE
ShutdownWait == AllUnitsFinished

\* lines 177-183: the with block is left
ExecutorExit ==
    /\ rpc = "wait"
    /\ ShutdownWait
    /\ rpc' = "finally"
    /\ UNCHANGED <<wait, env_vars, store, budget, raised, to_submit, queue, permits,
                   closed, pc, attempt, err, latest, window, data, todo, outcome>>

\* lines 184-187: finally: self.client.close()
Close ==
    /\ rpc = "finally"
    /\ closed' = closed + 1
    /\ rpc' = "returned"
    /\ UNCHANGED <<wait, env_vars, store, budget, raised, to_submit, queue, permits,
                   pc, attempt, err, latest, window, data, todo, outcome>>

\* lines 190-213: the next process invocation, with its own configuration
main ==
    /\ rpc = "returned"
    /\ runs < MaxRuns
    /\ \E cfg \in Configs :
          /\ ConfigCost(cfg) <= budget
          /\ budget' = budget - ConfigCost(cfg)
          /\ config' = cfg
          /\ permits' = max_workers(cfg)
    /\ runs' = runs + 1
    /\ store0' = store
    /\ rpc' = "load"
    /\ raised' = FALSE
    /\ to_submit' = <<>>
    /\ queue' = <<>>
    /\ closed' = 0
    /\ pc' = FreshPc
    /\ attempt' = FreshAttempt
    /\ wait' = FreshWait
    /\ err' = FreshErr
    /\ latest' = FreshLatest
    /\ window' = FreshWindow
    /\ data' = FreshData
    /\ todo' = FreshTodo
    /\ outcome' = FreshOutcome
    /\ UNCHANGED <<today, county_collection, store>>

(***************************************************************************)
(* fetch_and_store_data(county): one unit of work                          *)
(***************************************************************************)
\* a pool thread (the executor has at most max_workers of them) takes the next
\* unit of work off the queue and enters it; line 73: with self.semaphore
\* takes a permit, and waits while none is left
Start(c) ==
    /\ queue # <<>>
    /\ c = Head(queue)
    /\ Cardinality(Running) < max_workers(config)
    /\ permits > 0
    /\ permits' = permits - 1
    /\ queue' = Tail(queue)
    /\ pc' = [pc EXCEPT ![c] = "resolve"]
    /\ UNCHANGED <<wait, env_vars, run_vars, store, budget, attempt, err,
                   latest, window, data, todo, outcome>>

\* lines 158-161: the except clause that catches exc, "" for no exception:
\* except requests.exceptions.HTTPError, then except Exception
except_clause(exc) ==
    IF exc = "" THEN ""
    ELSE IF exc \in {"HTTPError4xx", "HTTPError5xx"} THEN "HTTPError"
    ELSE "Exception"

\* the unit of work returns, after the except clause of exc when it raised:
\* the with block releases the permit
Exit_keeping_permit(c, how, exc) ==
    /\ pc' = [pc EXCEPT ![c] = "done"]
    /\ outcome' = [outcome EXCEPT ![c] = how]
    /\ err' = [err EXCEPT ![c] = except_clause(exc)]
    /\ UNCHANGED permits
Exit(c, how, exc) ==
    /\ pc' = [pc EXCEPT ![c] = "done"]
    /\ outcome' = [outcome EXCEPT ![c] = how]
    /\ err' = [err EXCEPT ![c] = except_clause(exc)]
    /\ permits' = permits + 1

\* lines 74-104: the required fields are checked, the latest stored date is
\* read and the window resolved; the unit returns when a field is missing or
\* the window is inverted
ResolveWindow(c) ==
    /\ pc[c] = "resolve"
    /\ LET county == county_collection[c]
       IN  IF ~AllFieldsPresent(county)
           THEN /\ Exit(c, "missing_data", "")
                /\ UNCHANGED <<latest, window, attempt>>
           ELSE LET latest_date_in_db == get_latest_date_for_county(store, county)
                    start_date_dt == StartDate(latest_date_in_db,
                                               config.re_fetch_days, today)
                    end_date_dt == EndDate(today)
                IN  /\ latest' = [latest EXCEPT ![c] = latest_date_in_db]
                    /\ IF NothingToFetch(start_date_dt, end_date_dt)
                       THEN /\ Exit(c, "no_new_data", "")
                            /\ UNCHANGED <<window, attempt>>
                       ELSE /\ window' = [window EXCEPT
                                            ![c] = <<start_date_dt, end_date_dt>>]
                            /\ attempt' = [attempt EXCEPT ![c] = 1]
                            /\ pc' = [pc EXCEPT ![c] = "request"]
                            /\ UNCHANGED <<outcome, err, permits>>
    /\ UNCHANGED <<wait, env_vars, run_vars, store, budget, queue, data, todo>>

\* line 87: the store read raises; line 160 catches and logs it
StoreReadFails(c) ==
    /\ pc[c] = "resolve"
    /\ AllFieldsPresent(county_collection[c])
    /\ budget > 0
    /\ budget' = budget - 1
    /\ Exit(c, "failed", "PyMongoError")
    /\ UNCHANGED <<wait, env_vars, run_vars, store, queue, attempt, latest, window,
                   data, todo>>

\* lines 67-70 and 120-125: an attempt succeeds; fetch_api_data returns the
\* parsed response and the reconcile loop is entered
FetchReturns(c) ==
    /\ pc[c] = "request"
    /\ \E shape \in Shapes, kind \in DateKinds, v \in Revisions :
          LET response == ResponseOf(shape, config.parameters,
                              ResponseDates(kind, window[c][1], window[c][2]), v)
          IN  /\ ResponseCost(shape, kind, v) <= budget
              /\ budget' = budget - ResponseCost(shape, kind, v)
              /\ data' = [data EXCEPT ![c] = response]
              /\ IF ~HasParameterPath(response)
                 THEN /\ Exit(c, "no_data", "")
                      /\ UNCHANGED todo
                 ELSE IF response.parameter = <<>>
                 THEN /\ Exit(c, "failed", "StopIteration")
                      /\ UNCHANGED todo
                 ELSE IF DatesOf(response.parameter) = <<>>
                 THEN /\ Exit(c, "updated", "")
                      /\ UNCHANGED todo
                 ELSE /\ todo' = [todo EXCEPT ![c] = DatesOf(response.parameter)]
                      /\ pc' = [pc EXCEPT ![c] = "upsert"]
                      /\ err' = [err EXCEPT ![c] = ""]
                      /\ UNCHANGED <<outcome, permits>>
    /\ attempt' = [attempt EXCEPT ![c] = 0]
    /\ UNCHANGED <<wait, env_vars, run_vars, store, queue, latest, window>>

\* lines 61-70: an attempt raises exc; tenacity retries it after a wait, or
\* re-raises it (reraise=True) and line 158 or 160 catches and logs it.
\* The first failing attempt of a unit of work takes one deviation.
FetchRaises(c, exc) ==
    /\ pc[c] = "request"
    /\ IF attempt[c] = 1
       THEN budget > 0 /\ budget' = budget - 1
       ELSE UNCHANGED budget
    /\ IF retry_if_exception_type(exc) /\ ~stop_after_attempt(attempt[c])
       THEN /\ pc' = [pc EXCEPT ![c] = "backoff"]
            /\ wait' = [wait EXCEPT ![c] = wait_exponential(attempt[c])]
            /\ UNCHANGED <<outcome, err, permits, attempt>>
       ELSE /\ Exit(c, "failed", exc)
            /\ attempt' = [attempt EXCEPT ![c] = 0]
            /\ UNCHANGED wait
    /\ UNCHANGED <<env_vars, run_vars, store, queue, latest, window, data, todo>>

\* line 68: requests.get(url) is called without a timeout: when the upstream
\* never answers, the attempt never ends and the thread stays in the call
FetchHangs(c) ==
    /\ pc[c] = "request"
    /\ budget > 0
    /\ budget' = budget - 1
    /\ pc' = [pc EXCEPT ![c] = "hung"]
    /\ UNCHANGED <<wait, env_vars, run_vars, store, queue, permits, attempt, err,
                   latest, window, data, todo, outcome>>

\* line 63: the wait is over, the next attempt starts
Backoff(c) ==
    /\ pc[c] = "backoff"
    /\ attempt' = [attempt EXCEPT ![c] = attempt[c] + 1]
    /\ wait' = [wait EXCEPT ![c] = 0]
    /\ pc' = [pc EXCEPT ![c] = "request"]
    /\ UNCHANGED <<env_vars, run_vars, store, budget, queue, permits,
                   latest, window, data, todo, outcome, err>>

\* lines 125-154: one pass of the loop over the dates: the record of the date
\* is built and upserted; strptime raises on a key that is no date
UpsertDate(c) ==
    /\ pc[c] = "upsert"
    /\ LET date_str == Head(todo[c])
           county == county_collection[c]
       IN  IF ~ValidDateStr(date_str)
           THEN /\ Exit(c, "failed", "ValueError")
                /\ UNCHANGED <<store, todo>>
           ELSE /\ store' = update_one(store, county.fips_code, strptime(date_str),
                                RecordOf(county, config.parameters,
                                         data[c].parameter, date_str))
                /\ todo' = [todo EXCEPT ![c] = Tail(todo[c])]
                /\ IF Tail(todo[c]) = <<>>
                   THEN Exit(c, "updated", "")
                   ELSE UNCHANGED <<pc, outcome, err, permits>>
    /\ UNCHANGED <<wait, env_vars, run_vars, budget, queue, attempt, latest, window,
                   data>>

\* line 149: update_one raises; line 160 catches and logs it
UpsertFails(c) ==
    /\ pc[c] = "upsert"
    /\ ValidDateStr(Head(todo[c]))
    /\ budget > 0
    /\ budget' = budget - 1
    /\ Exit(c, "failed", "PyMongoError")
    /\ UNCHANGED <<wait, env_vars, run_vars, store, queue, attempt, latest, window,
                   data, todo>>

Next ==
    \/ LoadCounties
    \/ LoadFails
    \/ Dispatch
    \/ DispatchFails
    \/ ExecutorExit
    \/ Close
    \/ main
    \/ \E c \in Counties : Start(c)
    \/ \E c \in Counties : ResolveWindow(c)
    \/ \E c \in Counties : StoreReadFails(c)
    \/ \E c \in Counties : FetchReturns(c)
    \/ \E c \in Counties, exc \in RequestExceptions : FetchRaises(c, exc)
    \/ \E c \in Counties : FetchHangs(c)
    \/ \E c \in Counties : Backoff(c)
    \/ \E c \in Counties : UpsertDate(c)
    \/ \E c \in Counties : UpsertFails(c)

Spec == Init /\ [][Next]_vars

\* the steps the program takes by itself, whatever the store and the
\* upstream do
ProgramStep ==
    \/ LoadCounties
    \/ Dispatch
    \/ ExecutorExit
    \/ Close
    \/ main
    \/ \E c \in Counties : Start(c)
    \/ \E c \in Counties : ResolveWindow(c)
    \/ \E c \in Counties : Backoff(c)
    \/ \E c \in Counties : UpsertDate(c)

\* the main thread and the threads of the pool keep running: a step the
\* program can take is eventually taken
FairSpec == Spec /\ WF_vars(ProgramStep)

\* lines 120-153: the reconcile of one response, as the loop of UpsertDate
\* performs it: the dates in order, up to a key that is no date
RECURSIVE ReconcileDates(_, _, _, _, _)
ReconcileDates(coll, county, params, parameters_data, dates) ==
    IF dates = <<>> \/ ~ValidDateStr(Head(dates)) THEN coll
    ELSE ReconcileDates(
            update_one(coll, county.fips_code, strptime(Head(dates)),
                       RecordOf(county, params, parameters_data, Head(dates))),
            county, params, parameters_data, Tail(dates))

Reconcile(coll, county, params, response) ==
    IF ~HasParameterPath(response) \/ response.parameter = <<>> THEN coll
    ELSE ReconcileDates(coll, county, params, response.parameter,
                        DatesOf(response.parameter))

(***************************************************************************)
(* C1: during run() with max_workers = N, the number of upstream requests  *)
(* in flight (attempts, retries and waits of fetch_api_data) never exceeds *)
(* N, the max_workers option of the configuration.                         *)
(***************************************************************************)
C1_InFlightBound == Cardinality(InFlight) <= config.max_workers

\* N requests are in flight while another county waits in the queue
C1_Witness ==
    /\ config.max_workers = 2
    /\ Cardinality(InFlight) = 2
    /\ queue # <<>>

(***************************************************************************)
(* C2: failure isolation.  When run() has returned after dispatching every *)
(* county, every county's unit of work has run to its end, and the         *)
(* documents of each county that did not fail are exactly those the        *)
(* county's own response yields from the documents it had when the run     *)
(* started, whatever happened to the other counties; a failing unit of     *)
(* work raises nothing out of run().                                       *)
(***************************************************************************)
\* the documents a county has after its response is reconciled, from the
\* documents it had before: per date of the response the record, laid over
\* the stored document of that date
C2_ExpectedDocs(c) ==
    LET county == county_collection[c]
        before == DocsOf(store0, county.fips_code)
        dates == IF outcome[c] = "updated"
                 THEN DOMAIN data[c].parameter[1].values ELSE {}
        old(s) == {d \in before : d.date = strptime(s)}
    IN  {d \in before : \A s \in dates : d.date # strptime(s)}
        \cup {IF old(s) = {}
              THEN RecordOf(county, config.parameters, data[c].parameter, s)
              ELSE RecordOf(county, config.parameters, data[c].parameter, s)
                     @@ (CHOOSE d \in old(s) : TRUE) : s \in dates}

C2_Processed == {c \in Counties :
                   \E k \in 1..Len(CountiesToProcess(county_collection, config)) :
                      CountiesToProcess(county_collection, config)[k] = c}

C2_FailureIsolation ==
    (rpc = "returned" /\ ~raised) =>
        \A c \in C2_Processed :
            /\ pc[c] = "done"
            /\ outcome[c] # "failed" =>
                  /\ DocsOf(store, county_collection[c].fips_code) = C2_ExpectedDocs(c)
                  /\ \A d \in C2_ExpectedDocs(c) : CopiesIn(d, store) = 1

\* one county failed, after run() returned, and another one was updated
C2_Witness ==
    /\ rpc = "returned" /\ ~raised
    /\ \E b, a \in Counties :
          /\ outcome[b] = "failed"
          /\ outcome[a] = "updated"
          /\ DocsOf(store, county_collection[a].fips_code) # {}

(***************************************************************************)
(* C3: in every reachable state the store holds at most one document per   *)
(* (fips_code, date): a reconcile of a stored date updates the document.   *)
(***************************************************************************)
C3_OneRecordPerKey ==
    \A d \in BagToSet(store) : CountKey(store, d.fips_code, d.date) = 1

\* a unit of work reconciled a date that was stored before the run
C3_Witness ==
    \E c \in Counties :
        /\ outcome[c] = "updated"
        /\ \E s \in DOMAIN data[c].parameter[1].values :
              Matching(store0, county_collection[c].fips_code, strptime(s)) # {}

(***************************************************************************)
(* C4: the reconciler is idempotent: at the step that completes the        *)
(* reconcile of a response for a county, reconciling the same response     *)
(* for the same county again leaves the store exactly as the first         *)
(* reconcile left it (same keys, same fields, no second document for a     *)
(* key).                                                                   *)
(***************************************************************************)
C4_Idempotent ==
    [][\A c \in Counties :
          (outcome[c] # "updated" /\ outcome'[c] = "updated") =>
              Reconcile(store', county_collection[c], config.parameters,
                        data'[c]) = store']_vars

\* the first reconcile rewrote a date stored before the run with other values
C4_Witness ==
    \E c \in Counties :
        /\ outcome[c] = "updated"
        /\ \E s \in DOMAIN data[c].parameter[1].values :
              LET fips == county_collection[c].fips_code
              IN  /\ Matching(store0, fips, strptime(s)) # {}
                  /\ Matching(store0, fips, strptime(s))
                        # Matching(store, fips, strptime(s))

(***************************************************************************)
(* C5: window correctness.  For every county a request is issued for, the  *)
(* window ends at today - 1 and starts at max(L - re_fetch_days, floor)    *)
(* when the county has a latest stored date L, and at floor when it has    *)
(* none.  The claim takes floor = today - 5 years; the code's floor is     *)
(* today - 5*365 days.                                                     *)
(***************************************************************************)
\* the same day of the year five years earlier (29 February: 28 February)
C5_FiveYearsBefore(z) ==
    LET c == civil_from_days(z)
        y == c.year - 5
        d == IF c.day > DaysInMonth(y, c.month) THEN DaysInMonth(y, c.month)
             ELSE c.day
    IN  days_from_civil(y, c.month, d)

\* the latest date the county had in the store when the run started
C5_Latest(c) ==
    LET docs == DocsOf(store0, county_collection[c].fips_code)
    IN  IF docs = {} THEN None ELSE Max({d.date : d \in docs})

C5_Window(c, floor) ==
    <<IF C5_Latest(c) = None THEN floor
      ELSE Max({C5_Latest(c) - config.re_fetch_days, floor}),
      today - 1>>

C6_EmptyWindowSkip ==
    \A c \in Counties :
        (latest[c] = today - 1 /\ config.re_fetch_days = 0) =>
            /\ window[c] = NoWindow
            /\ pc[c] \notin {"request", "backoff", "hung", "upsert"}

(***************************************************************************)
(* C7: a 4xx response is not retried: when the first attempt of a unit of  *)
(* work ends with a 4xx status, the unit of work fails at once, with no    *)
(* wait and no second attempt.                                             *)
(***************************************************************************)
C7_NoRetryOn4xx ==
    [][\A c \in Counties :
          (attempt[c] = 1 /\ FetchRaises(c, "HTTPError4xx")) =>
              (pc'[c] = "done" /\ outcome'[c] = "failed")]_vars

(***************************************************************************)
(* C8: bounded retry.  fetch_api_data makes at most 5 attempts; a          *)
(* retryable failure (connection error, timeout, 5xx) of attempt k < 5 is  *)
(* followed by a wait and attempt k + 1; a success ends the retrying; the  *)
(* failure of the 5th attempt is raised and the unit of work ends failed   *)
(* with that exception.                                                    *)
(***************************************************************************)
C8_Retryable == {"HTTPError5xx", "ConnectionError", "Timeout"}

C8_BoundedRetry ==
    [][\A c \in Counties :
          /\ attempt'[c] <= 5
          /\ \A exc \in C8_Retryable :
                FetchRaises(c, exc) =>
                    IF attempt[c] < 5
                    THEN /\ pc'[c] = "backoff"
                         /\ attempt'[c] = attempt[c]
                    ELSE /\ pc'[c] = "done"
                         /\ outcome'[c] = "failed"
                         /\ err'[c] = except_clause(exc)
          /\ (pc[c] = "backoff" /\ pc'[c] # "backoff") =>
                /\ pc'[c] = "request"
                /\ attempt'[c] = attempt[c] + 1
          /\ (pc[c] = "request" /\ pc'[c] \notin {"request", "backoff", "hung"}) =>
                /\ attempt'[c] = 0
                /\ \/ pc'[c] = "upsert"
                   \/ pc'[c] = "done" /\ outcome'[c] \in {"no_data", "updated"}
                   \/ pc'[c] = "done" /\ outcome'[c] = "failed"
                         /\ data'[c].has_parameter
                   \/ pc'[c] = "done" /\ outcome'[c] = "failed"
                         /\ attempt[c] = 5]_vars

\* a unit of work failed with the exception of its fifth attempt
C8_Witness ==
    \E c \in Counties :
        outcome[c] = "failed" /\ err[c] = "HTTPError"

(***************************************************************************)
(* C9: stable record schema.  Every record the reconciler writes has one   *)
(* field per requested parameter, named by the lower-cased code; it holds  *)
(* the upstream value when the response has one for the parameter on the   *)
(* date, and None when the parameter lacks the date or the response lacks  *)
(* the parameter.                                                          *)
(***************************************************************************)
C9_FieldName(code) == IF code = "T2M" THEN "t2m" ELSE "prectot"

\* the value the response has for the parameter on the date, None when none
C9_Upstream(response, code, s) ==
    LET ks == {k \in 1..Len(response.parameter) :
                 /\ response.parameter[k].code = code
                 /\ s \in DOMAIN response.parameter[k].values}
    IN  IF ks = {} THEN None
        ELSE response.parameter[CHOOSE k \in ks : TRUE].values[s]

C9_StableSchema ==
    [][\A c \in Counties :
          (pc[c] = "upsert" /\ todo'[c] # todo[c]) =>
              LET s == Head(todo[c])
                  written == Matching(store', county_collection[c].fips_code,
                                      strptime(s))
              IN  /\ written # {}
                  /\ \A d \in written :
                        \A k \in 1..Len(config.parameters) :
                            LET code == config.parameters[k]
                            IN  /\ C9_FieldName(code) \in DOMAIN d
                                /\ d[C9_FieldName(code)]
                                      = C9_Upstream(data[c], code, s)]_vars

\* a stored record with a value for one parameter and None for the other
C9_Witness ==
    \E d \in BagToSet(store) :
        /\ "prectot" \in DOMAIN d /\ d["prectot"] = None
        /\ "t2m" \in DOMAIN d /\ d["t2m"] # None

(***************************************************************************)
(* C10: on every path through run() the client is closed exactly once,     *)
(* and only when every dispatched unit of work has finished.               *)
(***************************************************************************)
C10_ClosedOnceAfterAll ==
    /\ closed <= 1
    /\ rpc = "returned" => closed = 1
    /\ rpc # "returned" => closed = 0
    /\ closed = 1 => (queue = <<>> /\ \A c \in Counties : pc[c] \in {"idle", "done"})

\* run() returned after a crash during dispatch, with units of work done
C10_Witness ==
    /\ rpc = "returned" /\ raised /\ closed = 1
    /\ \E c \in Counties : pc[c] = "done"

(***************************************************************************)
(* C11: replace semantics of the upsert.  After a record is upserted for   *)
(* a key that already has a stored record, the stored record consists of   *)
(* exactly the fields of the new record: a field of the earlier record     *)
(* that the new record lacks does not survive.                             *)
(***************************************************************************)
C11_ReplaceSemantics ==
    [][\A c \in Counties :
          (pc[c] = "upsert" /\ todo'[c] # todo[c]) =>
              LET s == Head(todo[c])
                  county == county_collection[c]
              IN  \A d \in Matching(store', county.fips_code, strptime(s)) :
                     d = RecordOf(county, config.parameters, data[c].parameter, s)]_vars

(***************************************************************************)
(* C12: the dates the reconciler writes a record for are the union of the  *)
(* dates present under any parameter of the response, also when the        *)
(* parameters do not carry the same dates.                                 *)
(***************************************************************************)
\* the dates present under any parameter of the response
C12_AllDates(response) ==
    UNION {DOMAIN response.parameter[k].values : k \in 1..Len(response.parameter)}

C12_WritesUnionOfDates ==
    \A c \in Counties :
        outcome[c] = "updated" =>
            {d.date : d \in DocsOf(store, county_collection[c].fips_code)}
                \ {d.date : d \in DocsOf(store0, county_collection[c].fips_code)}
              = {strptime(s) : s \in C12_AllDates(data[c])}
                \ {d.date : d \in DocsOf(store0, county_collection[c].fips_code)}

(***************************************************************************)
(* C13: a response without the path properties.parameter is a soft skip:   *)
(* the unit of work ends with no record written or modified, without       *)
(* raising and with no error recorded, and the county is not failed.       *)
(***************************************************************************)
C13_NoDataSoftSkip ==
    [][\A c \in Counties :
          (FetchReturns(c) /\ ~data'[c].has_parameter) =>
              /\ store' = store
              /\ pc'[c] = "done"
              /\ outcome'[c] = "no_data"
              /\ err'[c] = ""
              /\ DocsOf(store', county_collection[c].fips_code)
                    = DocsOf(store0, county_collection[c].fips_code)]_vars

\* a county with stored records got a response without the path, and run()
\* returned
C13_Witness ==
    /\ rpc = "returned" /\ ~raised
    /\ \E c \in Counties :
          /\ outcome[c] = "no_data"
          /\ DocsOf(store, county_collection[c].fips_code) # {}

(***************************************************************************)
(* C14: a county that lacks one of county_name, state_name, fips_code,     *)
(* latitude, longitude is skipped: no read of its latest date, no upstream *)
(* request and no write happen for it, and the other counties are          *)
(* processed normally.                                                     *)
(***************************************************************************)
C14_Missing(c) ==
    \E f \in {"county_name", "state_name", "fips_code", "latitude", "longitude"} :
        county_collection[c][f] = None

C14_MissingFieldsSkip ==
    /\ \A c \in Counties :
          C14_Missing(c) =>
              /\ pc[c] \in {"idle", "queued", "resolve", "done"}
              /\ pc[c] = "done" => (outcome[c] = "missing_data" /\ err[c] = "")
              /\ latest[c] = None /\ window[c] = NoWindow
              /\ data[c] = NoResponse /\ todo[c] = <<>>
              /\ DocsOf(store, county_collection[c].fips_code)
                    = DocsOf(store0, county_collection[c].fips_code)
    /\ (rpc = "returned" /\ ~raised) =>
          \A c \in C2_Processed :
              ~C14_Missing(c) =>
                  (pc[c] = "done" /\ outcome[c] \notin {"", "missing_data"})

\* run() returned: the county without latitude was skipped, another updated
C14_Witness ==
    /\ rpc = "returned" /\ ~raised
    /\ \E c, o \in Counties :
          /\ C14_Missing(c) /\ outcome[c] = "missing_data"
          /\ outcome[o] = "updated"
          /\ DocsOf(store, county_collection[o].fips_code) # {}

(***************************************************************************)
(* C15: every request attempt has a bounded duration: when the upstream    *)
(* never answers a request, the pool thread and the semaphore permit of    *)
(* the county are still eventually released and run() eventually returns.  *)
(***************************************************************************)
C15_HungAttemptReleased ==
    (\E c \in Counties : pc[c] = "hung")
        ~> (rpc = "returned" /\ \A c \in Counties : pc[c] # "hung")

(***************************************************************************)
(* C16: records are never deleted.  Over any sequence of runs and any      *)
(* outcome of the units of work, the set of (fips_code, date) keys in the  *)
(* store never shrinks, and the latest stored date of a county never       *)
(* decreases.                                                              *)
(***************************************************************************)
C16_Keys(coll) == {<<d.fips_code, d.date>> : d \in BagToSet(coll)}

C16_LatestOf(coll, c) ==
    LET docs == DocsOf(coll, county_collection[c].fips_code)
    IN  IF docs = {} THEN None ELSE Max({d.date : d \in docs})

C16_NeverDeleted ==
    [][/\ C16_Keys(store) \subseteq C16_Keys(store')
       /\ \A c \in Counties : C16_LatestOf(store, c) <= C16_LatestOf(store', c)
       /\ C16_Keys(store0) \subseteq C16_Keys(store')]_vars

\* a later run added a key for a county that had records, and another
\* county failed
C16_Witness ==
    /\ runs > 1
    /\ \E c, f \in Counties :
          /\ outcome[c] = "updated" /\ outcome[f] = "failed"
          /\ DocsOf(store0, county_collection[c].fips_code) # {}
          /\ C16_Keys(store0) # C16_Keys(store)

(***************************************************************************)
(* C17: no request is issued with an inverted window.  When the resolved   *)
(* start is later than end = today - 1, the unit of work ends with no      *)
(* request, no write and no error; every issued request has                *)
(* today - 5 years <= start <= end.                                        *)
(***************************************************************************)
\* the start resolved from the latest date stored when the run started
C17_ResolvedStart(c) ==
    IF C5_Latest(c) = None THEN today - 1825
    ELSE Max({C5_Latest(c) - config.re_fetch_days, today - 1825})

C17_NoInvertedWindow ==
    \A c \in Counties :
        /\ c \in InFlight =>
              /\ C5_FiveYearsBefore(today) <= window[c][1]
              /\ window[c][1] <= window[c][2]
              /\ window[c][2] = today - 1
        /\ (C17_ResolvedStart(c) > today - 1 /\ ~C14_Missing(c)) =>
              /\ pc[c] \in {"idle", "queued", "resolve", "done"}
              /\ window[c] = NoWindow /\ data[c] = NoResponse /\ todo[c] = <<>>
              /\ DocsOf(store, county_collection[c].fips_code)
                    = DocsOf(store0, county_collection[c].fips_code)
              /\ (pc[c] = "done" /\ latest[c] # None) =>
                    (outcome[c] = "no_new_data" /\ err[c] = "")

\* the latest stored date is yesterday and re_fetch_days is -1: the start
\* is today, and the unit of work ended with nothing to fetch
C17_Witness ==
    \E c \in Counties :
        /\ config.re_fetch_days = 0 - 1
        /\ latest[c] = today - 1
        /\ C17_ResolvedStart(c) = today
        /\ outcome[c] = "no_new_data"

(***************************************************************************)
(* C18: backoff schedule.  The wait between attempt k and attempt k + 1    *)
(* (k = 1..4) starts at 4, doubles with each retry and is capped at 10:    *)
(* min(4 * 2^(k-1), 10) = 4, 8, 10, 10.                                    *)
(***************************************************************************)
C18_Wait(k) == IF 4 * 2^(k - 1) < 10 THEN 4 * 2^(k - 1) ELSE 10

C18_BackoffSchedule ==
    \A c \in Counties :
        pc[c] = "backoff" =>
            /\ attempt[c] \in 1..4
            /\ wait[c] = C18_Wait(attempt[c])

(***************************************************************************)
(* C19: the permit a unit of work takes is released on every exit path.    *)
(* In every reachable state the permits held are as many as the units of   *)
(* work executing, at most max_workers, so that an acquire never blocks,   *)
(* and when run() returns all max_workers permits are available.           *)
(***************************************************************************)
C19_Executing == {c \in Counties : pc[c] \notin {"idle", "queued", "done"}}

C19_PermitsBalanced ==
    /\ config.max_workers - permits = Cardinality(C19_Executing)
    /\ Cardinality(C19_Executing) <= config.max_workers
    /\ (queue # <<>> /\ Cardinality(C19_Executing) < config.max_workers) =>
          permits > 0
    /\ rpc = "returned" => permits = config.max_workers

\* both permits are held while a unit of work that failed has given its
\* permit back
C19_Witness ==
    /\ permits = 0
    /\ Cardinality(C19_Executing) = 2
    /\ \E c \in Counties : outcome[c] = "failed"

(***************************************************************************)
(* C20: a county whose upstream call fails has none of its records         *)
(* created or modified in the run: its documents are those of the run's    *)
(* start, its latest stored date is unchanged, and so is the window the    *)
(* next run of the same day resolves for it.                               *)
(***************************************************************************)
\* the unit of work of c ended because fetch_api_data raised
C20_UpstreamFailed(c) ==
    /\ outcome[c] = "failed"
    /\ window[c] # NoWindow
    /\ ~data[c].has_parameter

\* the documents of the county, with the number of copies of each
C20_Records(coll, c) ==
    [d \in DocsOf(coll, county_collection[c].fips_code) |-> CopiesIn(d, coll)]

\* the start a run of today resolves from the county's documents in coll
C20_NextStart(coll, c) ==
    IF C16_LatestOf(coll, c) = None THEN today - 1825
    ELSE Max({C16_LatestOf(coll, c) - config.re_fetch_days, today - 1825})

C20_FailedFetchWritesNothing ==
    \A c \in Counties :
        C20_UpstreamFailed(c) =>
            /\ C20_Records(store, c) = C20_Records(store0, c)
            /\ C16_LatestOf(store, c) = C16_LatestOf(store0, c)
            /\ window[c] = <<C20_NextStart(store, c), today - 1>>

\* the upstream call of a county with stored records failed, while another
\* county was updated
C20_Witness ==
    \E c, o \in Counties :
        /\ C20_UpstreamFailed(c)
        /\ DocsOf(store0, county_collection[c].fips_code) # {}
        /\ outcome[o] = "updated"
        /\ runs > 1

=============================================================================
